---- MODULE Spec2Model ----
(***************************************************************************)
(* A model of hanabi_agents/rlax_dqn/rlax_rainbow.py: the population       *)
(* orchestrator DQNAgent (update, update_prio, explore, exploit,           *)
(* add_experience, change_buffersize), the action-selection functions of   *)
(* DQNPolicy and the TD targets of DQNLearning.update_q.                   *)
(*                                                                         *)
(* Values the code only passes around are kept symbolic:                   *)
(*   - a parameter tree is the number of gradient steps applied to the     *)
(*     initial tree (update_q returns a new tree at every call);           *)
(*   - a sampled buffer index and a td-error are records naming the        *)
(*     update() call (its train_step), the member and the batch position   *)
(*     that produced them;                                                 *)
(*   - an observation row is 10 * c + r for row r of the c-th batch.       *)
(* Floating-point numbers are fixed-point integers; the unit is stated     *)
(* where they are used.                                                    *)
(***************************************************************************)
EXTENDS Integers, Sequences, FiniteSets, TLC

(***************************************************************************)
(* Bounds of the exploration.                                              *)
(***************************************************************************)
MaxSteps == 4          \* update() calls that learn
MaxPeriod == 3         \* target_update_period ranges over 1..MaxPeriod
MaxPolicyCalls == 2    \* explore()/exploit() calls
MaxStored == 2         \* transitions a member's buffer receives

(***************************************************************************)
(* Configuration the constructor reads.                                    *)
(***************************************************************************)
NumParallel == 2       \* self.num_parallel = len(lrs)
TrainBatchSize == 2    \* params.train_batch_size
PastObsSize == 4       \* params.past_obs_size

Members == 0 .. NumParallel - 1

VARIABLES
    fixed_weights,          \* params.fixed_weights
    use_priority,           \* params.use_priority
    target_update_period,   \* params.target_update_period
    online_params,          \* self.online_params
    trg_params,             \* self.trg_params
    opt_state,              \* self.opt_state
    train_step,             \* self.train_step
    rng,                    \* keys drawn so far from self.rng
    intermediate_indices,   \* self.intermediate_indices
    intermediate_tds,       \* self.intermediate_tds
    experience,             \* self.experience, one buffer per member
    past_obs,               \* self.past_obs
    past_lms,               \* self.past_lms
    buffersize,             \* self.buffersize
    lrs,                    \* self.lrs
    alpha,                  \* self.alpha
    lr,                     \* self.lr
    learning_rate,          \* self.learning_rate
    optimizer,              \* self.optimizer
    files,                  \* the files of the checkpoint directory
    saved_weights,          \* the parameters at the last save_weights() call
    last_call               \* the last call made: its name, arguments, outcome

vars == <<fixed_weights, use_priority, target_update_period, online_params,
          trg_params, opt_state, train_step, rng, intermediate_indices,
          intermediate_tds, experience, past_obs, past_lms, buffersize,
          lrs, alpha, lr, learning_rate, optimizer, files, saved_weights,
          last_call>>

config == <<fixed_weights, use_priority, target_update_period>>

\* the hyperparameters of the population and the optimizer built from them
hyper == <<lrs, alpha, lr, learning_rate, optimizer>>

\* the checkpoint directory
disk == <<files, saved_weights>>

Min(a, b) == IF a < b THEN a ELSE b
Max(a, b) == IF a > b THEN a ELSE b

(***************************************************************************)
(* Python list slices.                                                     *)
(***************************************************************************)
ButLastTwoMut(q) == SubSeq(q, 1, Len(q) - 1)

\* q[:-2]
ButLastTwo(q) == SubSeq(q, 1, Len(q) - 2)

\* q[-2:]
LastTwo(q) == SubSeq(q, Max(1, Len(q) - 1), Len(q))

\* arr[lo:hi] of a 0-based array held as a sequence; Python clips the bounds
Slice(arr, lo, hi) == SubSeq(arr, Min(lo, Len(arr)) + 1, Min(hi, Len(arr)))

RECURSIVE Concat(_)
\* the concatenation of a sequence of sequences
Concat(ss) == IF ss = <<>> THEN <<>> ELSE Head(ss) \o Concat(Tail(ss))

(***************************************************************************)
(* The replay buffer of one member (ExperienceBuffer / PriorityBuffer):    *)
(* the transitions it received and the update_priorities calls made on it. *)
(***************************************************************************)
EmptyBuffer == [data |-> <<>>, calls |-> <<>>]

\* buffer.add_transitions(obs_tm1, actions_tm1, rewards_t, obs_t, legal_t, term_t)
AddTransitions(buf, o, a, r, o2, lm, t) ==
    [buf EXCEPT !.data = @ \o [k \in 1 .. Len(o) |->
        [observation_tm1 |-> o[k], action_tm1 |-> a[k], reward_t |-> r[k],
         observation_t |-> o2[k], legal_moves_t |-> lm[k], terminal_t |-> t[k]]]]

\* buffer.update_priorities(indices, priorities)
UpdatePriorities(buf, indices, prios) ==
    [buf EXCEPT !.calls = Append(@, [indices |-> indices, prios |-> prios])]

\* the indices sample_batch(n) returns to member i in the update() at `step`
SampleBatch(step, i, n) ==
    [j \in 1 .. n |-> [idx |-> TRUE, step |-> step, member |-> i, pos |-> j]]

(***************************************************************************)
(* DQNAgent.__init__                                                       *)
(***************************************************************************)
Zeros(n) == [k \in 1 .. n |-> 0]

\* params.learning_rate, which the constructor copies to self.learning_rate
ParamsLearningRate == 5

\* len(l) of a Python list held as a function on 0 .. len(l) - 1
PyLen(l) == Cardinality(DOMAIN l)

\* self.lr: onp.zeros(num_parallel) filled with the entries of lrs, negated
NegatedLrs(lrs_arg) == [i \in DOMAIN lrs_arg |-> -lrs_arg[i]]

\* custom_adam(eps = 3.125e-5): scale_by_adam alone, no learning-rate stage
CustomAdam == [name |-> "custom_adam"]

\* a file nothing was written to
NoFile == [kind |-> "none", val |-> 0]

\* no save_weights() call was made yet
NoCheckpoint == [saved |-> FALSE, online |-> 0, trg |-> 0]

\* the checkpoint directory before any save
NoFiles == [f \in {"online.pkl", "target.pkl", "json"} |-> NoFile]

InitAgent ==
    /\ lrs = [i \in Members |-> i + 1]
    /\ alpha = [i \in Members |-> 1]
    /\ lr = NegatedLrs(lrs)
    /\ learning_rate = ParamsLearningRate
    /\ optimizer = CustomAdam
    /\ files = NoFiles
    /\ saved_weights = NoCheckpoint
    /\ online_params = 0
    /\ trg_params = 0
    /\ opt_state = 0
    /\ train_step = 0
    /\ rng = NumParallel
    /\ intermediate_indices = <<>>
    /\ intermediate_tds = <<>>
    /\ experience = [i \in Members |-> EmptyBuffer]
    /\ past_obs = Zeros(PastObsSize)
    /\ past_lms = Zeros(PastObsSize)
    /\ last_call = [op |-> "__init__", exc |-> "none", arg |-> <<>>]

Init ==
    /\ fixed_weights \in BOOLEAN
    /\ use_priority \in BOOLEAN
    /\ target_update_period \in 1 .. MaxPeriod
    /\ buffersize = [kind |-> "list", val |-> [i \in Members |-> 1024]]
    /\ InitAgent

(***************************************************************************)
(* DQNAgent.update                                                         *)
(***************************************************************************)
\* update() learns unless the weights are frozen
LearnsMut(fw) == TRUE

Learns(fw) == ~fw

\* update_q: online_params_t = optax.apply_updates(online_params, updates)
GradStep(p) == p + 1

\* update_q: optimizer.update(grads, opt_state) returns the next state
OptStep(s) == s + 1

\* the new priorities update_q returns for member i's batch
TdErrors(step, i, samp) ==
    [j \in 1 .. Len(samp) |->
        [td |-> TRUE, step |-> step, member |-> i, pos |-> j]]

SyncDueMut(step, period) == (step + 1) % period = 0

\* if self.train_step % self.params.target_update_period == 0
SyncDue(step, period) == step % period = 0

NewTargetMut(step, period, trg, online) == online

\* self.trg_params after update(): the online parameters just computed, on a sync
NewTarget(step, period, trg, online) ==
    IF SyncDue(step, period) THEN online ELSE trg

BuffersAfterUpdateMut(exp, sample_indices, tds) ==
    [i \in DOMAIN exp |-> UpdatePriorities(exp[i], sample_indices[i], tds[i])]

\* the buffers when update() returns: it samples from them and calls no
\* update_priorities
BuffersAfterUpdate(exp, sample_indices, tds) == exp

\* self.opt_state has the population axis update_q_parallel maps it along: the
\* constructor builds it with the vmapped init and update_q_parallel returns
\* it so; overwrite_lr builds it with self.optimizer.init alone, whose step
\* count is a scalar, when it installs optax.adam
OptStateBatched == optimizer = CustomAdam

\* the keys a run of the model draws at most
MaxKeys == NumParallel * (1 + 3 * (MaxSteps + 1) + MaxPolicyCalls)

Update ==
    IF Learns(fixed_weights)
    THEN /\ \A i \in Members : Len(experience[i].data) >= TrainBatchSize
         /\ rng' = rng + 3 * NumParallel
         /\ IF OptStateBatched
            THEN /\ train_step < MaxSteps
                 /\ last_call' = [op |-> "update", exc |-> "none",
                                  arg |-> [lr |-> lr, optimizer |-> optimizer]]
                 /\ online_params' = GradStep(online_params)
                 /\ opt_state' = OptStep(opt_state)
                 /\ IF use_priority
                    THEN LET sample_indices == [i \in Members |->
                                 SampleBatch(train_step, i, TrainBatchSize)]
                             tds == [i \in Members |->
                                 TdErrors(train_step, i, sample_indices[i])]
                         IN /\ intermediate_indices' =
                                 Append(intermediate_indices, sample_indices)
                            /\ intermediate_tds' =
                                 Append(intermediate_tds, tds)
                            /\ experience' = BuffersAfterUpdate(experience,
                                                    sample_indices, tds)
                    ELSE UNCHANGED <<intermediate_indices, intermediate_tds,
                                     experience>>
                 /\ trg_params' = NewTarget(train_step, target_update_period,
                                            trg_params, online_params')
                 /\ train_step' = train_step + 1
            \* jax.vmap raises ValueError at the scalar leaf of opt_state
            ELSE /\ rng' <= MaxKeys
                 /\ last_call' = [op |-> "update", exc |-> "ValueError",
                                  arg |-> [lr |-> lr, optimizer |-> optimizer]]
                 /\ UNCHANGED <<online_params, trg_params, opt_state,
                                train_step, intermediate_indices,
                                intermediate_tds, experience>>
         /\ UNCHANGED <<config, hyper, disk, past_obs, past_lms, buffersize>>
    ELSE /\ last_call' = [op |-> "update", exc |-> "none", arg |-> <<>>]
         /\ UNCHANGED <<config, hyper, disk, online_params, trg_params,
                        opt_state, train_step, rng, intermediate_indices,
                        intermediate_tds, experience, past_obs, past_lms,
                        buffersize>>

(***************************************************************************)
(* DQNAgent.update_prio                                                    *)
(***************************************************************************)
\* indices[i] after the loop over self.intermediate_indices[:-2]
FlushedIndices(q, i) == Concat([k \in 1 .. Len(ButLastTwo(q)) |-> q[k][i]])

FlushedTdsMut(q, i) ==
    Concat([k \in 1 .. Len(ButLastTwo(q)) |-> q[k][(i + 1) % NumParallel]])

\* onp.hstack(tds_list)[i], tds_list built from self.intermediate_tds[:-2]
FlushedTds(q, i) == Concat([k \in 1 .. Len(ButLastTwo(q)) |-> q[k][i]])

\* onp.hstack of an empty list raises ValueError
HstackRaises(q) == Len(ButLastTwo(q)) = 0

KeptMut(q) == SubSeq(q, Max(1, Len(q)), Len(q))

\* self.intermediate_indices[-2:], self.intermediate_tds[-2:]
Kept(q) == LastTwo(q)

UpdatePrio ==
    /\ IF use_priority
       THEN IF HstackRaises(intermediate_tds)
            THEN /\ last_call' = [op |-> "update_prio", exc |-> "ValueError",
                                  arg |-> <<>>]
                 /\ UNCHANGED <<intermediate_indices, intermediate_tds,
                                experience>>
            ELSE /\ last_call' = [op |-> "update_prio", exc |-> "none",
                                  arg |-> <<>>]
                 /\ experience' = [i \in Members |->
                        UpdatePriorities(experience[i],
                            FlushedIndices(intermediate_indices, i),
                            FlushedTds(intermediate_tds, i))]
                 /\ intermediate_indices' = Kept(intermediate_indices)
                 /\ intermediate_tds' = Kept(intermediate_tds)
       ELSE /\ last_call' = [op |-> "update_prio", exc |-> "none", arg |-> <<>>]
            /\ UNCHANGED <<intermediate_indices, intermediate_tds, experience>>
    /\ UNCHANGED <<config, hyper, disk, online_params, trg_params, opt_state,
                   train_step,
                   rng, past_obs, past_lms, buffersize>>

(***************************************************************************)
(* DQNAgent.explore, DQNAgent.exploit                                      *)
(***************************************************************************)
\* the batch lengths explore()/exploit() are called with: num_parallel members
\* times obs_len rows each, within the history's length
BatchLens == { n \in 1 .. PastObsSize : n % NumParallel = 0 }

\* observations[1][0] and observations[1][1] of the c-th batch, of n rows
ObsRows(c, n) == [r \in 1 .. n |-> 10 * c + r]
LmsRows(c, n) == [r \in 1 .. n |-> 100 + 10 * c + r]

\* onp.roll(a, -n, axis=0)
Roll(a, n) == [k \in 1 .. Len(a) |-> a[((k - 1 + n) % Len(a)) + 1]]

\* a[-n:, :] = rows
WriteLast(a, rows) ==
    [k \in 1 .. Len(a) |->
        IF k > Len(a) - Len(rows) THEN rows[k - (Len(a) - Len(rows))] ELSE a[k]]

ShiftInMut(past, rows) == WriteLast(Roll(past, 1), rows)

\* the history after the two statements that roll it and write the new rows
ShiftIn(past, rows) == WriteLast(Roll(past, Len(rows)), rows)

MutatesHistoryMut(eval) == TRUE

\* exploit(): if eval == False
MutatesHistory(eval) == eval = FALSE

\* explore()/exploit() calls made so far (each draws num_parallel keys, each
\* learning update() three times as many, the constructor num_parallel)
PolicyCalls == (rng - NumParallel - 3 * NumParallel * train_step) \div NumParallel

Exploit ==
    /\ PolicyCalls < MaxPolicyCalls
    /\ \E n \in BatchLens, eval \in BOOLEAN :
       LET v == PolicyCalls + 1 IN
        /\ last_call' = [op |-> "exploit", exc |-> "none",
                         arg |-> [obs |-> ObsRows(v, n), lms |-> LmsRows(v, n),
                                  eval |-> eval]]
        /\ IF MutatesHistory(eval)
           THEN /\ past_obs' = ShiftIn(past_obs, ObsRows(v, n))
                /\ past_lms' = ShiftIn(past_lms, LmsRows(v, n))
           ELSE UNCHANGED <<past_obs, past_lms>>
    /\ rng' = rng + NumParallel
    /\ UNCHANGED <<config, hyper, disk, online_params, trg_params, opt_state,
                   train_step,
                   intermediate_indices, intermediate_tds, experience,
                   buffersize>>

Explore ==
    /\ PolicyCalls < MaxPolicyCalls
    /\ \E n \in BatchLens :
       LET v == PolicyCalls + 1 IN
        /\ last_call' = [op |-> "explore", exc |-> "none",
                         arg |-> [obs |-> ObsRows(v, n), lms |-> LmsRows(v, n),
                                  eval |-> FALSE]]
        /\ past_obs' = ShiftIn(past_obs, ObsRows(v, n))
        /\ past_lms' = ShiftIn(past_lms, LmsRows(v, n))
    /\ rng' = rng + NumParallel
    /\ UNCHANGED <<config, hyper, disk, online_params, trg_params, opt_state,
                   train_step,
                   intermediate_indices, intermediate_tds, experience,
                   buffersize>>

(***************************************************************************)
(* DQNAgent.add_experience                                                 *)
(***************************************************************************)
\* one of the six arrays of a batch of n rows
Column(name, n) == [r \in 1 .. n |-> <<name, r>>]

\* the batch sizes add_experience() is called with
AddRows == 1 .. NumParallel * MaxStored

\* obs_len = int(obs_vec_tm1.shape[0] / self.num_parallel)
ObsLen(n) == n \div NumParallel

\* member i's buffer after self.experience[i].add_transitions(...)
AddSlice(buf, i, n) ==
    AddTransitions(buf,
        Slice(Column("obs_tm1", n), i * ObsLen(n), (i + 1) * ObsLen(n)),
        Slice(Column("actions_tm1", n), i * ObsLen(n), (i + 1) * ObsLen(n)),
        Slice(Column("rewards_t", n), i * ObsLen(n), (i + 1) * ObsLen(n)),
        Slice(Column("obs_t", n), i * ObsLen(n), (i + 1) * ObsLen(n)),
        Slice(Column("legal_t", n), i * ObsLen(n), (i + 1) * ObsLen(n)),
        Slice(Column("term_t", n), i * ObsLen(n), (i + 1) * ObsLen(n)))

AddExperience ==
    /\ \E n \in AddRows :
        /\ \A i \in Members : Len(experience[i].data) + ObsLen(n) <= MaxStored
        /\ last_call' = [op |-> "add_experience", exc |-> "none",
                         arg |-> [n |-> n]]
        /\ experience' = [i \in Members |-> AddSlice(experience[i], i, n)]
    /\ UNCHANGED <<config, hyper, disk, online_params, trg_params, opt_state,
                   train_step,
                   rng, intermediate_indices, intermediate_tds, past_obs,
                   past_lms, buffersize>>

Next == Update \/ UpdatePrio \/ Explore \/ Exploit \/ AddExperience

Spec == Init /\ [][Next]_vars

(***************************************************************************)
(* The pipelined driver: prioritized replay, and update_prio() called once *)
(* after every update() and at no other time.                              *)
(***************************************************************************)
InitPipe ==
    /\ Init
    /\ use_priority = TRUE

NextPipe ==
    \/ /\ last_call.op = "update"
       /\ UpdatePrio
    \/ /\ last_call.op # "update"
       /\ (Update \/ AddExperience \/ Explore \/ Exploit)

SpecPipe == InitPipe /\ [][NextPipe]_vars

(***************************************************************************)
(* DQNPolicy.  An action is an index 1 .. NumActions (the code's index     *)
(* plus one).  A probability vector is a sequence of integers together     *)
(* with the integer `one` that stands for 1.0 in its unit.  A uniform      *)
(* threshold drawn from [0, 0.999) is an integer 0 .. one - 1 of the same  *)
(* unit: it can be exactly 0, it can equal a cumulative sum, and it is     *)
(* below 0.999.  `err` is the rounding defect of the float cumulative sum: *)
(* an entry that should be 1.0 comes out as 1.0 less err half-units, which *)
(* is still above 0.999.                                                   *)
(***************************************************************************)
NumActions == 3        \* action_spec.num_values
ProbTotal == 4         \* 1.0 in the unit of the vectors given to the sampler
EpsUnit == 2           \* 1.0 in the unit of epsilon
NegInf == -1000        \* -jnp.inf

Actions == 1 .. NumActions

RECURSIVE SumTo(_, _)
\* jnp.cumsum(probs, axis=-1)[i]
SumTo(p, i) == IF i = 0 THEN 0 ELSE p[i] + SumTo(p, i - 1)

RECURSIVE Fact(_)
Fact(n) == IF n <= 1 THEN 1 ELSE n * Fact(n - 1)

\* 1.0 in the unit of the greedy and uniform vectors: every count of actions
\* divides it
ProbUnit == Fact(NumActions)

\* cpi after the clamp of its last entry to 1., in half-units
Cpi(probs, one, err) ==
    [i \in 1 .. Len(probs) |->
        IF i = Len(probs) THEN 2 * one
        ELSE IF SumTo(probs, i) = one THEN 2 * one - err
        ELSE 2 * SumTo(probs, i)]

\* jnp.argmin(flags): the first index whose flag is False, the first index of
\* all when every flag is True
ArgMin(flags) ==
    IF \A i \in 1 .. Len(flags) : flags[i] THEN 1
    ELSE CHOOSE i \in 1 .. Len(flags) :
            /\ ~flags[i]
            /\ \A k \in 1 .. i - 1 : flags[k]

\* _categorical_sample with the threshold rnd drawn by jax.random.uniform
CategoricalSample(probs, one, rnd, err) ==
    LET cpi == Cpi(probs, one, err)
    IN ArgMin([i \in 1 .. Len(probs) |-> 2 * rnd > cpi[i]])

SeqMax(q) == CHOOSE m \in { q[i] : i \in 1 .. Len(q) } :
                \A i \in 1 .. Len(q) : q[i] <= m

Count(flags) == Cardinality({ i \in 1 .. Len(flags) : flags[i] })

\* _argmax_with_random_tie_breaking, in units of 1 / ProbUnit
ArgmaxWithRandomTieBreaking(preferences) ==
    LET optimal == [i \in 1 .. Len(preferences) |->
                        preferences[i] = SeqMax(preferences)]
    IN [i \in 1 .. Len(preferences) |->
            IF optimal[i] THEN ProbUnit \div Count(optimal) ELSE 0]

\* _mix_with_legal_uniform, epsilon = eps / EpsUnit; in units of
\* 1 / (ProbUnit * EpsUnit)
MixWithLegalUniform(probs, eps, legal) ==
    [i \in 1 .. Len(probs) |->
        (EpsUnit - eps) * probs[i]
            + eps * (IF legal[i] THEN ProbUnit \div Count(legal) ELSE 0)]

\* exp(d / tau) for a difference d <= 0 of preferences, in eighths
ExpFix(d, tau) ==
    IF d <= NegInf \div 2 THEN 0
    ELSE IF d = 0 THEN 8
    ELSE IF tau = 1 THEN (IF d = -1 THEN 3 ELSE 1)
    ELSE (IF d = -1 THEN 5 ELSE 3)

\* _apply_legal_boltzmann before its division by the sum: the weights, whose
\* sum stands for 1.0
ApplyLegalBoltzmann(probs, tau, legal) ==
    [i \in 1 .. Len(probs) |->
        IF legal[i] THEN ExpFix(probs[i] - SeqMax(probs), tau) ELSE 0]

\* q_vals = jnp.where(lms, q_vals, -jnp.inf)
MaskIllegal(q, lms) == [i \in 1 .. Len(q) |-> IF lms[i] THEN q[i] ELSE NegInf]

\* legal_epsilon_greedy(epsilon).sample(key, q_vals, lms)
EpsilonGreedySample(q_vals, lms, eps, rnd, err) ==
    CategoricalSample(
        MixWithLegalUniform(ArgmaxWithRandomTieBreaking(q_vals), eps, lms),
        ProbUnit * EpsUnit, rnd, err)

\* legal_softmax(tau).sample(key, q_vals, lms)
SoftmaxSample(q_vals, lms, tau, rnd, err) ==
    LET w == ApplyLegalBoltzmann(q_vals, tau, lms)
    IN CategoricalSample(w, SumTo(w, Len(w)), rnd, err)

\* what the network, or the mean of its value distribution, returns per action
QVals == {0, 1}
NetOutputs == [Actions -> QVals]

\* legal-move masks with a legal action
LegalMasks == { l \in [Actions -> BOOLEAN] : \E a \in Actions : l[a] }

Taus == {1, 2}

\* the thresholds jax.random.uniform(key, maxval=0.999) can return
Thresholds(one) == 0 .. one - 1

\* well-formed probability vectors: entries >= 0 that sum to 1.0
ProbVectors ==
    { p \in [Actions -> 0 .. ProbTotal] : SumTo(p, NumActions) = ProbTotal }

\* 1.0 in the unit of the vector policy() hands to the sampler
PolicyOne(q_vals, lms, use_softmax, tau) ==
    IF use_softmax
    THEN SumTo(ApplyLegalBoltzmann(q_vals, tau, lms), NumActions)
    ELSE ProbUnit * EpsUnit

\* DQNPolicy.policy: the action it returns
Policy(q, lms, use_softmax, eps, tau, rnd, err) ==
    LET q_vals == MaskIllegal(q, lms)
    IN IF use_softmax
       THEN SoftmaxSample(q_vals, lms, tau, rnd, err)
       ELSE EpsilonGreedySample(q_vals, lms, eps, rnd, err)

\* DQNPolicy.eval_policy: rlax.greedy().sample(key, q_vals) returns an action
\* of maximal masked value
EvalPolicy(q, lms) ==
    LET q_vals == MaskIllegal(q, lms)
    IN { a \in Actions : q_vals[a] = SeqMax(q_vals) }

\* a pure function is applied once to the arguments drawn
Fresh == last_call.op = "__init__"

CallCategoricalSample ==
    /\ Fresh
    /\ \E probs \in ProbVectors, rnd \in Thresholds(ProbTotal), err \in 0 .. 1 :
        last_call' = [op |-> "_categorical_sample", exc |-> "none",
                      arg |-> [probs |-> probs, rnd |-> rnd, err |-> err],
                      ret |-> CategoricalSample(probs, ProbTotal, rnd, err)]
    /\ UNCHANGED <<config, hyper, disk, online_params, trg_params, opt_state,
                   train_step,
                   rng, intermediate_indices, intermediate_tds, experience,
                   past_obs, past_lms, buffersize>>

CallPolicy ==
    /\ Fresh
    /\ \E q \in NetOutputs, lms \in LegalMasks, use_softmax \in BOOLEAN,
          eps \in 0 .. EpsUnit, tau \in Taus, err \in 0 .. 1 :
        \E rnd \in Thresholds(PolicyOne(MaskIllegal(q, lms), lms,
                                        use_softmax, tau)) :
            last_call' = [op |-> "policy", exc |-> "none",
                          arg |-> [q |-> q, lms |-> lms,
                                   use_softmax |-> use_softmax,
                                   eps |-> IF use_softmax THEN 0 ELSE eps,
                                   tau |-> IF use_softmax THEN tau ELSE 1,
                                   rnd |-> rnd, err |-> err],
                          ret |-> Policy(q, lms, use_softmax, eps, tau,
                                         rnd, err)]
    /\ UNCHANGED <<config, hyper, disk, online_params, trg_params, opt_state,
                   train_step,
                   rng, intermediate_indices, intermediate_tds, experience,
                   past_obs, past_lms, buffersize>>

CallEvalPolicy ==
    /\ Fresh
    /\ \E q \in NetOutputs, lms \in LegalMasks :
        \E a \in EvalPolicy(q, lms) :
            last_call' = [op |-> "eval_policy", exc |-> "none",
                          arg |-> [q |-> q, lms |-> lms], ret |-> a]
    /\ UNCHANGED <<config, hyper, disk, online_params, trg_params, opt_state,
                   train_step,
                   rng, intermediate_indices, intermediate_tds, experience,
                   past_obs, past_lms, buffersize>>

InitPolicy ==
    /\ fixed_weights = FALSE
    /\ use_priority = FALSE
    /\ target_update_period = 1
    /\ buffersize = [kind |-> "list", val |-> [i \in Members |-> 1024]]
    /\ InitAgent

NextPolicy == CallCategoricalSample \/ CallPolicy \/ CallEvalPolicy

SpecPolicy == InitPolicy /\ [][NextPolicy]_vars

(***************************************************************************)
(* Properties of the action selection.                                     *)
(***************************************************************************)
\* C7 as stated: for every well-formed probability vector and every
\* threshold that can be drawn from [0, 0.999), 0 included,
\* _categorical_sample returns an index of probability > 0.
C7_SampleHasPositiveProbability ==
    last_call.op = "_categorical_sample"
        => last_call.arg.probs[last_call.ret] > 0

\* the mask has exactly one legal action, a
OnlyLegal(lms, a) == lms[a] /\ \A b \in Actions : lms[b] => b = a

\* C8 as stated: with exactly one legal action, eval_policy returns it and
\* policy returns it, epsilon-greedy (any epsilon) or Boltzmann (any tau), for
\* every network output and every threshold.
C8_SingleLegalActionIsReturned ==
    last_call.op \in {"policy", "eval_policy"}
        => \A a \in Actions :
            OnlyLegal(last_call.arg.lms, a) => last_call.ret = a

(***************************************************************************)
(* DQNLearning.update_q: the discount and the TD target of every sample of *)
(* a batch, for the four TD variants.  discount = d / DiscountUnit; a      *)
(* scalar target is in units of 1 / DiscountUnit; a value distribution     *)
(* over the atoms is a sequence of masses, and a categorical target is the *)
(* function from the places r + discount * atom to the mass put there.     *)
(***************************************************************************)
DiscountUnit == 2      \* 1.0 in the unit of the discount

\* self.atoms[0]: jnp.linspace(-atom_vmax, atom_vmax, n_atoms)
Atoms == <<-1, 1>>

Rewards == {0, 1}

\* value distributions over the atoms
Dists == {<<2, 0>>, <<1, 1>>, <<0, 2>>}

\* network outputs on one next observation: scalar mode, distributional mode
QRows == { q \in NetOutputs : Count([a \in Actions |-> q[a] = 1]) = 1 }
CatRows == { l \in [Actions -> Dists] :
                /\ Count([a \in Actions |-> l[a] = <<0, 2>>]) = 1
                /\ \A a \in Actions : l[a] \in {<<0, 2>>, <<1, 1>>} }

TermDiscountMut(term, discount) == discount

\* discount_t = jnp.where(term_t, 0, discount_t)
TermDiscount(term, discount) == IF term THEN 0 ELSE discount

\* jnp.argmax: the first index of the maximum
ArgMaxFirst(q) == CHOOSE i \in 1 .. Len(q) :
                    /\ q[i] = SeqMax(q)
                    /\ \A k \in 1 .. i - 1 : q[k] # SeqMax(q)

RECURSIVE Dot(_, _, _)
Dot(p, z, n) == IF n = 0 THEN 0 ELSE p[n] * z[n] + Dot(p, z, n - 1)

\* the expectation of every action's value distribution over the atoms
QOfLogits(logits) ==
    [a \in 1 .. Len(logits) |-> Dot(logits[a], Atoms, Len(Atoms))]

\* rlax.q_learning: target_tm1 = r_t + discount_t * max(q_t)
QLearningTarget(r, d, q_t) == DiscountUnit * r + d * SeqMax(q_t)

\* rlax.double_q_learning: r_t + discount_t * q_t_value[argmax(q_t_selector)]
DoubleQLearningTarget(r, d, q_t, q_t_selector) ==
    DiscountUnit * r + d * q_t[ArgMaxFirst(q_t_selector)]

\* target_z = r_t + discount_t * atoms_t carrying the masses p: the mass at
\* every place
TargetDistribution(r, d, p) ==
    LET z == [j \in 1 .. Len(Atoms) |-> DiscountUnit * r + d * Atoms[j]]
        Mass[n \in 0 .. Len(Atoms), at \in { z[j] : j \in 1 .. Len(Atoms) }] ==
            IF n = 0 THEN 0
            ELSE (IF z[n] = at THEN p[n] ELSE 0) + Mass[n - 1, at]
    IN [at \in { z[j] : j \in 1 .. Len(Atoms) } |-> Mass[Len(Atoms), at]]

\* rlax.categorical_q_learning: the target network picks the action
CategoricalQLearningTarget(r, d, q_logits_t) ==
    TargetDistribution(r, d, q_logits_t[ArgMaxFirst(QOfLogits(q_logits_t))])

\* rlax.categorical_double_q_learning: q_sel picks the action
CategoricalDoubleQLearningTarget(r, d, q_logits_t, q_sel) ==
    TargetDistribution(r, d, q_logits_t[ArgMaxFirst(q_sel)])

\* the discount and the TD target of one transition under the variant chosen
\* by use_distribution and use_double_q
TdTarget(use_distribution, use_double_q, discount, tr, out_t, out_sel) ==
    LET d == TermDiscount(tr.term, discount)
    IN [discount |-> d,
        target |->
            IF use_distribution
            THEN IF use_double_q
                 THEN CategoricalDoubleQLearningTarget(tr.r, d, out_t,
                                                       QOfLogits(out_sel))
                 ELSE CategoricalQLearningTarget(tr.r, d, out_t)
            ELSE IF use_double_q
                 THEN DoubleQLearningTarget(tr.r, d, out_t, out_sel)
                 ELSE QLearningTarget(tr.r, d, out_t)]

TdBatches == [1 .. TrainBatchSize -> [r : Rewards, term : BOOLEAN]]

NetRows(use_distribution) == IF use_distribution THEN CatRows ELSE QRows

CallUpdateQ ==
    /\ Fresh
    /\ \E use_distribution \in BOOLEAN, use_double_q \in BOOLEAN,
          discount \in 1 .. DiscountUnit, batch \in TdBatches :
        \E out_t \in [1 .. TrainBatchSize -> NetRows(use_distribution)],
           out_sel \in [1 .. TrainBatchSize -> NetRows(use_distribution)] :
            last_call' = [op |-> "update_q", exc |-> "none",
                arg |-> [use_distribution |-> use_distribution,
                         use_double_q |-> use_double_q,
                         discount |-> discount, batch |-> batch,
                         out_t |-> out_t, out_sel |-> out_sel],
                ret |-> [j \in 1 .. TrainBatchSize |->
                            TdTarget(use_distribution, use_double_q, discount,
                                     batch[j], out_t[j], out_sel[j])]]
    /\ UNCHANGED <<config, hyper, disk, online_params, trg_params, opt_state,
                   train_step,
                   rng, intermediate_indices, intermediate_tds, experience,
                   past_obs, past_lms, buffersize>>

NextTD == CallUpdateQ

SpecTD == InitPolicy /\ [][NextTD]_vars

(***************************************************************************)
(* DQNAgent.change_buffersize.  self.buffersize is the constructor's       *)
(* buffersizes argument: a Python list or a numpy array, and a Python int  *)
(* once a call has assigned it.  buffer_factor is 2 or 4, so that the      *)
(* float products are exact.                                               *)
(***************************************************************************)
MinClamp == 512
MaxClamp == 1048576

CapVals == {100, 512, 600, 1048576, 2097152}

Factors == {2, 4}

\* the outcome of `self.buffersize <= 512` as an if-condition: an exception
\* for a list and for an array of several elements
CompareRaises(b) ==
    IF b.kind = "list" THEN "TypeError"
    ELSE IF b.kind = "ndarray" /\ Len(b.val) # 1 THEN "ValueError"
    ELSE "none"

\* the number self.buffersize compares as
Capacity(b) == IF b.kind = "int" THEN b.val ELSE b.val[1]

\* choices, each a fraction <<numerator, denominator>>
Choices(cap, buffer_factor) ==
    IF cap <= MinClamp THEN {<<buffer_factor, 1>>, <<1, 1>>}
    ELSE IF cap >= MaxClamp THEN {<<1, 1>>, <<1, buffer_factor>>}
    ELSE {<<buffer_factor, 1>>, <<1, buffer_factor>>}

\* int(buffersize_survivor * choice)
NewBuffersize(buffersize_survivor, choice) ==
    (buffersize_survivor * choice[1]) \div choice[2]

ChangeBuffersize ==
    /\ \E buffer_factor \in Factors, buffersize_survivor \in CapVals :
        IF CompareRaises(buffersize) # "none"
        THEN /\ last_call' = [op |-> "change_buffersize",
                              exc |-> CompareRaises(buffersize),
                              arg |-> [buffer_factor |-> buffer_factor,
                                       buffersize_survivor |->
                                            buffersize_survivor]]
             /\ UNCHANGED buffersize
        ELSE \E choice \in Choices(Capacity(buffersize), buffer_factor) :
             \* self.experience is a list: change_size raises after the
             \* assignment
             /\ last_call' = [op |-> "change_buffersize",
                              exc |-> "AttributeError",
                              arg |-> [buffer_factor |-> buffer_factor,
                                       buffersize_survivor |->
                                            buffersize_survivor]]
             /\ buffersize' = [kind |-> "int",
                    val |-> NewBuffersize(buffersize_survivor, choice)]
    /\ UNCHANGED <<config, hyper, disk, online_params, trg_params, opt_state,
                   train_step,
                   rng, intermediate_indices, intermediate_tds, experience,
                   past_obs, past_lms>>

\* the populations of one and of two members
InitPBT ==
    /\ fixed_weights = FALSE
    /\ use_priority \in BOOLEAN
    /\ target_update_period = 1
    /\ \E n \in 1 .. 2 :
        /\ buffersize \in [kind : {"list", "ndarray"}, val : [1 .. n -> CapVals]]
        /\ experience = [i \in 0 .. n - 1 |-> EmptyBuffer]
        /\ rng = n
        /\ lrs = [i \in 0 .. n - 1 |-> i + 1]
        /\ alpha = [i \in 0 .. n - 1 |-> 1]
    /\ lr = NegatedLrs(lrs)
    /\ learning_rate = ParamsLearningRate
    /\ optimizer = CustomAdam
    /\ files = NoFiles
    /\ saved_weights = NoCheckpoint
    /\ online_params = 0
    /\ trg_params = 0
    /\ opt_state = 0
    /\ train_step = 0
    /\ intermediate_indices = <<>>
    /\ intermediate_tds = <<>>
    /\ past_obs = Zeros(PastObsSize)
    /\ past_lms = Zeros(PastObsSize)
    /\ last_call = [op |-> "__init__", exc |-> "none", arg |-> <<>>]

NextPBT == ChangeBuffersize

SpecPBT == InitPBT /\ [][NextPBT]_vars

(***************************************************************************)
(* Properties of the target-network sync.                                  *)
(***************************************************************************)
\* C1 as stated: from a fresh agent that learns, after exactly
\* target_update_period calls to update() the target parameters equal the
\* online parameters.
C1_SyncedAfterPeriodCalls ==
    (~fixed_weights /\ train_step = target_update_period)
        => trg_params = online_params

\* C1 as the code has it: the sync is made by the calls numbered
\* k * target_update_period + 1 (k >= 0), so after exactly that many calls
\* the target parameters equal the online parameters.
C1_SyncedAfterPeriodCallsPlusOne ==
    (~fixed_weights /\ train_step >= 1
        /\ (train_step - 1) % target_update_period = 0)
        => trg_params = online_params

\* The second sync of an agent whose period is longer than one call.
C1_Witness ==
    /\ ~fixed_weights
    /\ target_update_period >= 2
    /\ train_step = target_update_period + 1
    /\ trg_params = online_params
    /\ online_params = train_step

\* C2: the target parameters change only in an update() call made at a
\* train_step that is a multiple of target_update_period, where they become
\* the online parameters that call produced; every other step of update(),
\* update_prio(), explore(), exploit() and add_experience() leaves them as
\* they were.
C2_TargetChangesOnlyOnSync ==
    [][IF /\ last_call'.op = "update"
          /\ ~fixed_weights
          /\ train_step % target_update_period = 0
       THEN trg_params' = online_params'
       ELSE trg_params' = trg_params]_vars

\* An update() that changed the online parameters and left the target at the
\* value of an earlier sync.
C2_Witness ==
    /\ last_call.op = "update"
    /\ train_step >= 2
    /\ trg_params >= 1
    /\ trg_params # online_params

(***************************************************************************)
(* Properties of the deferred priority write.                              *)
(***************************************************************************)
\* the buffer write of member i that flushes exactly the entry of the update()
\* made at train_step `step`
EntryWrite(step, i) ==
    [indices |-> [j \in 1 .. TrainBatchSize |->
                    [idx |-> TRUE, step |-> step, member |-> i, pos |-> j]],
     prios |-> [j \in 1 .. TrainBatchSize |->
                    [td |-> TRUE, step |-> step, member |-> i, pos |-> j]]]

\* C3: in the pipelined driver, an update_prio() call that writes to the
\* buffers, made after the k-th update(), writes for each member exactly the
\* indices and td-errors of the (k-2)-th update(); nothing the two most
\* recent update() calls produced is ever in a buffer write.
C3_WritesEntryTwoStepsBack ==
    /\ (last_call.op = "update_prio" /\ last_call.exc = "none")
        => \A i \in Members :
            /\ Len(experience[i].calls) >= 1
            /\ experience[i].calls[Len(experience[i].calls)]
                    = EntryWrite(train_step - 3, i)
    /\ \A i \in Members : \A c \in 1 .. Len(experience[i].calls) :
        /\ \A j \in 1 .. Len(experience[i].calls[c].prios) :
                experience[i].calls[c].prios[j].step + 2 < train_step
        /\ \A j \in 1 .. Len(experience[i].calls[c].indices) :
                experience[i].calls[c].indices[j].step + 2 < train_step

\* The second write of the pipeline: after the fourth update().
C3_Witness ==
    /\ last_call.op = "update_prio"
    /\ last_call.exc = "none"
    /\ train_step = 4
    /\ \A i \in Members : Len(experience[i].calls) = 2

\* C4: after an update_prio() call made with n pending entries (prioritized
\* replay on), each pending queue holds exactly the min(2, n) most recent
\* entries, in their order.
C4_QueuesKeepLastTwo ==
    [][(use_priority /\ last_call'.op = "update_prio") =>
        LET n == Len(intermediate_indices)
            m == Min(2, n)
        IN /\ Len(intermediate_indices') = m
           /\ Len(intermediate_tds') = m
           /\ \A k \in 1 .. m :
                /\ intermediate_indices'[k] = intermediate_indices[n - m + k]
                /\ intermediate_tds'[k] = intermediate_tds[n - m + k]]_vars

\* An update_prio() call that found more than two entries and cut the queues.
C4_Witness ==
    /\ use_priority
    /\ last_call.op = "update_prio"
    /\ last_call.exc = "none"
    /\ Len(intermediate_indices) = 2
    /\ Len(intermediate_tds) = 2
    /\ \E i \in Members : Len(experience[i].calls) >= 1

(***************************************************************************)
(* Frame properties.                                                       *)
(***************************************************************************)
\* C5: with fixed_weights set, update() changes nothing: parameters, target
\* parameters, optimizer state, train_step, pending queues, buffers and the
\* key stream are as before the call.
C5_FrozenUpdateIsNoOp ==
    [][(fixed_weights /\ last_call'.op = "update") =>
        UNCHANGED <<online_params, trg_params, opt_state, train_step,
                    intermediate_indices, intermediate_tds, experience, rng,
                    past_obs, past_lms>>]_vars

\* update() was called on a frozen agent whose buffers hold a full batch.
C5_Witness ==
    /\ fixed_weights
    /\ last_call.op = "update"
    /\ \A i \in Members : Len(experience[i].data) >= TrainBatchSize

\* C6: exploit(observations, eval=True) leaves past_obs and past_lms as they
\* are; explore(observations) and exploit(observations, eval=False) move every
\* row up by the batch length and put the batch in the last rows; none of
\* them changes the parameters, the optimizer state, train_step or the
\* pending queues.
C6_HistoryAndFrame ==
    [][last_call'.op \in {"explore", "exploit"} =>
        LET a == last_call'.arg
            n == Len(a.obs)
        IN /\ UNCHANGED <<online_params, trg_params, opt_state, train_step,
                          intermediate_indices, intermediate_tds>>
           /\ IF last_call'.op = "exploit" /\ a.eval
              THEN UNCHANGED <<past_obs, past_lms>>
              ELSE \A k \in 1 .. PastObsSize :
                    IF k <= PastObsSize - n
                    THEN /\ past_obs'[k] = past_obs[k + n]
                         /\ past_lms'[k] = past_lms[k + n]
                    ELSE /\ past_obs'[k] = a.obs[k - (PastObsSize - n)]
                         /\ past_lms'[k] = a.lms[k - (PastObsSize - n)]]_vars

\* An evaluation call made on a history that an earlier call had filled in
\* part: the rows of that call are still there.
C6_Witness ==
    /\ last_call.op = "exploit"
    /\ last_call.arg.eval
    /\ past_obs[PastObsSize] # 0
    /\ past_obs[1] = 0
    /\ past_lms[PastObsSize] # 0

(***************************************************************************)
(* Properties of the TD target.                                            *)
(***************************************************************************)
\* the target that is the reward alone: the scalar r, or all the mass at r
RewardAlone(use_distribution, r) ==
    IF use_distribution
    THEN (DiscountUnit * r) :> 2
    ELSE DiscountUnit * r

\* C9: in each of the four TD variants the discount used for a transition is
\* 0 when its terminal flag is set and the configured discount otherwise, and
\* in a batch whose transitions are all terminal the TD target of every
\* sample is its reward alone, whatever the target and selector networks
\* return.
C9_TerminalCancelsBootstrap ==
    last_call.op = "update_q" =>
        LET a == last_call.arg
            out == last_call.ret
        IN /\ \A j \in 1 .. TrainBatchSize :
                out[j].discount = IF a.batch[j].term THEN 0 ELSE a.discount
           /\ (\A j \in 1 .. TrainBatchSize : a.batch[j].term)
                => \A j \in 1 .. TrainBatchSize :
                    out[j].target = RewardAlone(a.use_distribution, a.batch[j].r)

\* A batch of terminal transitions with different rewards, undiscounted
\* configuration, categorical double-Q, the two networks disagreeing.
C9_Witness ==
    /\ last_call.op = "update_q"
    /\ last_call.arg.use_distribution
    /\ last_call.arg.use_double_q
    /\ last_call.arg.discount = DiscountUnit
    /\ \A j \in 1 .. TrainBatchSize : last_call.arg.batch[j].term
    /\ \E j, k \in 1 .. TrainBatchSize :
            last_call.arg.batch[j].r # last_call.arg.batch[k].r
    /\ \E j \in 1 .. TrainBatchSize :
            last_call.arg.out_t[j] # last_call.arg.out_sel[j]
    /\ \A j \in 1 .. TrainBatchSize : last_call.ret[j].discount = 0

(***************************************************************************)
(* Properties of change_buffersize.                                        *)
(***************************************************************************)
\* C10 as stated: for buffer_factor > 1 and any survivor size, a capacity
\* <= 512 before the call is never smaller after it, and a capacity >= 2^20
\* before the call is never larger after it.
C10_ClampedCapacityMove ==
    [][(last_call'.op = "change_buffersize" /\ buffersize' # buffersize) =>
        /\ Capacity(buffersize) <= MinClamp
            => Capacity(buffersize') >= Capacity(buffersize)
        /\ Capacity(buffersize) >= MaxClamp
            => Capacity(buffersize') <= Capacity(buffersize)]_vars

(***************************************************************************)
(* DQNAgent.save_weights, save_states, save_attributes and                 *)
(* restore_weights, every save made with one path and the name "name".     *)
(* A file holds the object written to it and what that object was.  An     *)
(* optimizer state loaded where a parameter tree is expected is a negative *)
(* number: no parameter tree equals it.                                    *)
(***************************************************************************)
\* join_path(path, "rlax_rainbow_" + fname_part + "_online.pkl") in save_weights
WeightsOnlineFile == "online.pkl"

\* join_path(path, "rlax_rainbow_" + fname_part + "_target.pkl") in save_weights
WeightsTargetFile == "target.pkl"

\* join_path(path, "rlax_rainbow_" + fname_part + "_online.pkl") in save_states
StatesFile == "online.pkl"

\* os.path.join(path, name + '.json') in save_attributes
AttributesFile == "json"

\* pickle.dump(obj, of)
Pickled(kind, obj) == [kind |-> kind, val |-> obj]

\* pickle.load(iwf)
Unpickled(content) ==
    IF content.kind = "params" THEN content.val ELSE -(content.val + 1)

SaveWeights ==
    /\ files' = [files EXCEPT
                    ![WeightsOnlineFile] = Pickled("params", online_params),
                    ![WeightsTargetFile] = Pickled("params", trg_params)]
    /\ saved_weights' = [saved |-> TRUE, online |-> online_params,
                         trg |-> trg_params]
    /\ last_call' = [op |-> "save_weights", exc |-> "none", arg |-> <<>>]
    /\ UNCHANGED <<config, hyper, online_params, trg_params, opt_state,
                   train_step, rng, intermediate_indices, intermediate_tds,
                   experience, past_obs, past_lms, buffersize>>

SaveStates ==
    /\ files' = [files EXCEPT ![StatesFile] = Pickled("opt_state", opt_state)]
    /\ last_call' = [op |-> "save_states", exc |-> "none", arg |-> <<>>]
    /\ UNCHANGED <<config, hyper, saved_weights, online_params, trg_params,
                   opt_state, train_step, rng, intermediate_indices,
                   intermediate_tds, experience, past_obs, past_lms,
                   buffersize>>

\* json.dump(_dict, fp) raises TypeError at a numpy array, after open(path, 'w')
\* and the chunks before the array
SaveAttributes ==
    /\ IF buffersize.kind = "ndarray"
       THEN /\ files' = [files EXCEPT ![AttributesFile] =
                            [kind |-> "partial json", val |-> [lr |-> lrs]]]
            /\ last_call' = [op |-> "save_attributes", exc |-> "TypeError",
                             arg |-> <<>>]
       ELSE /\ files' = [files EXCEPT ![AttributesFile] =
                            [kind |-> "json",
                             val |-> [lr |-> lrs, buffersize |-> buffersize.val,
                                      alpha |-> alpha]]]
            /\ last_call' = [op |-> "save_attributes", exc |-> "none",
                             arg |-> <<>>]
    /\ UNCHANGED <<config, hyper, saved_weights, online_params, trg_params,
                   opt_state, train_step, rng, intermediate_indices,
                   intermediate_tds, experience, past_obs, past_lms,
                   buffersize>>

\* the files a caller hands to restore_weights
WeightFiles == {WeightsOnlineFile, WeightsTargetFile}

\* open(file, 'rb') of a file that was never written raises FileNotFoundError
RestoreWeights ==
    /\ \E online_weights_file \in WeightFiles, trg_weights_file \in WeightFiles :
        /\ last_call' = [op |-> "restore_weights",
                exc |-> IF \/ files[online_weights_file].kind = "none"
                           \/ files[trg_weights_file].kind = "none"
                        THEN "FileNotFoundError" ELSE "none",
                arg |-> [online_weights_file |-> online_weights_file,
                         trg_weights_file |-> trg_weights_file]]
        /\ IF files[online_weights_file].kind = "none"
           THEN UNCHANGED <<online_params, trg_params>>
           ELSE /\ online_params' = Unpickled(files[online_weights_file])
                /\ IF files[trg_weights_file].kind = "none"
                   THEN UNCHANGED trg_params
                   ELSE trg_params' = Unpickled(files[trg_weights_file])
    /\ UNCHANGED <<config, hyper, disk, opt_state, train_step, rng,
                   intermediate_indices, intermediate_tds, experience,
                   past_obs, past_lms, buffersize>>

\* an agent that learns, without prioritized replay
InitPersist ==
    /\ Init
    /\ fixed_weights = FALSE
    /\ use_priority = FALSE

\* the agent is followed up to its first restore_weights()
NextPersist ==
    /\ last_call.op # "restore_weights"
    /\ \/ Update
       \/ AddExperience
       \/ SaveWeights
       \/ SaveStates
       \/ SaveAttributes
       \/ RestoreWeights

SpecPersist == InitPersist /\ [][NextPersist]_vars

(***************************************************************************)
(* Properties of the checkpoint.                                           *)
(***************************************************************************)
\* C11 as stated: restore_weights applied to the two files save_weights wrote
\* sets the online and the target parameters to the values they had at that
\* save_weights call, whatever update(), save_states() and save_attributes()
\* calls were made in between.
C11_RestoreReturnsSavedWeights ==
    (/\ last_call.op = "restore_weights"
     /\ last_call.exc = "none"
     /\ last_call.arg.online_weights_file = WeightsOnlineFile
     /\ last_call.arg.trg_weights_file = WeightsTargetFile
     /\ saved_weights.saved)
        => /\ online_params = saved_weights.online
           /\ trg_params = saved_weights.trg

(***************************************************************************)
(* DQNAgent.__init__ called with lrs, buffersizes and alphas of any        *)
(* lengths.  Before the call there is no agent: the variables hold no      *)
(* attribute yet and last_call.op is "none".                               *)
(***************************************************************************)
MaxMembers == 3        \* the length of a list given to the constructor

\* the list comprehension that builds self.experience reads
\* self.buffersizes[i], and self.alphas[i] with prioritized replay, for every
\* i in range(num_parallel): IndexError past the end of a list
ExperienceRaises(num_parallel, buffersizes_arg, alphas_arg, prio) ==
    \E i \in 0 .. num_parallel - 1 :
        \/ i >= PyLen(buffersizes_arg)
        \/ prio /\ i >= PyLen(alphas_arg)

InitCtor ==
    /\ fixed_weights \in BOOLEAN
    /\ use_priority \in BOOLEAN
    /\ target_update_period \in 1 .. MaxPeriod
    /\ last_call = [op |-> "none", exc |-> "none", arg |-> <<>>]
    /\ lrs = <<>>
    /\ alpha = <<>>
    /\ buffersize = [kind |-> "list", val |-> <<>>]
    /\ lr = <<>>
    /\ learning_rate = 0
    /\ optimizer = [name |-> "none"]
    /\ online_params = 0
    /\ trg_params = 0
    /\ opt_state = 0
    /\ train_step = 0
    /\ rng = 0
    /\ experience = <<>>
    /\ intermediate_indices = <<>>
    /\ intermediate_tds = <<>>
    /\ past_obs = <<>>
    /\ past_lms = <<>>
    /\ files = NoFiles
    /\ saved_weights = NoCheckpoint

Construct ==
    /\ last_call.op = "none"
    /\ \E n_lrs \in 1 .. MaxMembers, n_buffersizes \in 1 .. MaxMembers,
          n_alphas \in 1 .. MaxMembers :
        LET lrs_arg == [i \in 0 .. n_lrs - 1 |-> i + 1]
            buffersizes_arg == [i \in 0 .. n_buffersizes - 1 |-> 1024]
            alphas_arg == [i \in 0 .. n_alphas - 1 |-> 1]
            num_parallel == PyLen(lrs_arg)
            raises == ExperienceRaises(num_parallel, buffersizes_arg,
                                       alphas_arg, use_priority)
        IN /\ lrs' = lrs_arg
           /\ alpha' = alphas_arg
           /\ buffersize' = [kind |-> "list", val |-> buffersizes_arg]
           /\ lr' = NegatedLrs(lrs_arg)
           /\ rng' = num_parallel
           /\ IF raises
              THEN UNCHANGED <<experience, intermediate_indices,
                               intermediate_tds>>
              ELSE /\ experience' =
                        [i \in 0 .. num_parallel - 1 |-> EmptyBuffer]
                   /\ intermediate_indices' = <<>>
                   /\ intermediate_tds' = <<>>
           /\ last_call' = [op |-> "__init__",
                            exc |-> IF raises THEN "IndexError" ELSE "none",
                            arg |-> [lrs |-> lrs_arg,
                                     buffersizes |-> buffersizes_arg,
                                     alphas |-> alphas_arg]]
    /\ past_obs' = Zeros(PastObsSize)
    /\ past_lms' = Zeros(PastObsSize)
    /\ online_params' = 0
    /\ trg_params' = 0
    /\ opt_state' = 0
    /\ train_step' = 0
    /\ learning_rate' = ParamsLearningRate
    /\ optimizer' = CustomAdam
    /\ UNCHANGED <<config, disk>>

NextCtor == Construct

SpecCtor == InitCtor /\ [][NextCtor]_vars

(***************************************************************************)
(* Properties of the constructor.                                          *)
(***************************************************************************)
\* C12 as stated: whenever lrs, buffersizes and alphas do not all have the
\* same length, with or without prioritized replay, the constructor raises:
\* no agent with a mismatched population is created.
C12_MismatchedListsFail ==
    (/\ last_call.op = "__init__"
     /\ \/ PyLen(last_call.arg.lrs) # PyLen(last_call.arg.buffersizes)
        \/ PyLen(last_call.arg.lrs) # PyLen(last_call.arg.alphas))
        => last_call.exc # "none"

(***************************************************************************)
(* Properties of add_experience.                                           *)
(***************************************************************************)
\* the transitions the step appended to member i's buffer
Added(before, after, i) ==
    SubSeq(after[i].data, Len(before[i].data) + 1, Len(after[i].data))

\* row r of the batch, as a transition
BatchRow(r) ==
    [observation_tm1 |-> <<"obs_tm1", r>>, action_tm1 |-> <<"actions_tm1", r>>,
     reward_t |-> <<"rewards_t", r>>, observation_t |-> <<"obs_t", r>>,
     legal_moves_t |-> <<"legal_t", r>>, terminal_t |-> <<"term_t", r>>]

\* C13 as stated: add_experience on a batch of B transitions forwards every
\* transition to exactly one member's buffer, and member i receives the i-th
\* contiguous block, cut at the same bounds in all six arrays; no transition
\* is dropped or delivered to two members.
C13_EveryTransitionForwardedOnce ==
    [][last_call'.op = "add_experience" =>
        LET n == last_call'.arg.n IN
        /\ \A r \in 1 .. n :
            Cardinality({ i \in Members :
                \E k \in 1 .. Len(Added(experience, experience', i)) :
                    Added(experience, experience', i)[k] = BatchRow(r) }) = 1
        /\ \A i \in Members :
            \A k \in 1 .. Len(Added(experience, experience', i)) :
                Added(experience, experience', i)[k]
                    = BatchRow(i * (n \div NumParallel) + k)]_vars

(***************************************************************************)
(* Properties of the order of sampling, learning and priority writes.      *)
(***************************************************************************)
\* the entry an update() made at train_step `step` queues for member i
QueuedEntry(kind, step, i) ==
    [j \in 1 .. TrainBatchSize |->
        IF kind = "idx"
        THEN [idx |-> TRUE, step |-> step, member |-> i, pos |-> j]
        ELSE [td |-> TRUE, step |-> step, member |-> i, pos |-> j]]

\* C14: an update() that learns draws its keys, samples every member's batch
\* and runs the learning step on the parameters it was called with; it
\* writes no priority into a buffer, and with prioritized replay it appends
\* the sampled indices and the new td-errors to the pending queues, which it
\* leaves alone otherwise.  Only an update_prio() call changes the priority
\* writes a buffer has received.
C14_UpdateOnlyQueuesTdErrors ==
    [][/\ (last_call'.op = "update" /\ last_call'.exc = "none"
                /\ ~fixed_weights) =>
            /\ rng' = rng + 3 * NumParallel
            /\ experience' = experience
            /\ online_params' = online_params + 1
            /\ IF use_priority
               THEN /\ intermediate_indices' = Append(intermediate_indices,
                        [i \in Members |-> QueuedEntry("idx", train_step, i)])
                    /\ intermediate_tds' = Append(intermediate_tds,
                        [i \in Members |-> QueuedEntry("td", train_step, i)])
               ELSE UNCHANGED <<intermediate_indices, intermediate_tds>>
       /\ (\E i \in Members : experience'[i].calls # experience[i].calls)
            => last_call'.op = "update_prio"]_vars

\* An update() made after the buffers received a priority write: its entry is
\* the last of the queues and no buffer holds a td-error of that call.
C14_Witness ==
    /\ use_priority
    /\ last_call.op = "update"
    /\ last_call.exc = "none"
    /\ Len(intermediate_tds) >= 2
    /\ intermediate_tds[Len(intermediate_tds)]
            = [i \in Members |-> QueuedEntry("td", train_step - 1, i)]
    /\ \A i \in Members :
        /\ Len(experience[i].calls) >= 1
        /\ \A c \in 1 .. Len(experience[i].calls) :
            \A j \in 1 .. Len(experience[i].calls[c].prios) :
                experience[i].calls[c].prios[j].step < train_step - 1

(***************************************************************************)
(* DQNLearning.update_q.loss: the per-sample batch error and the new        *)
(* priorities.  A scalar error is in units of 1 / DiscountUnit.  A         *)
(* categorical error is the cross-entropy of the predicted distribution    *)
(* against the target projected on the atoms, in units of log 2 over the   *)
(* total projected mass.                                                   *)
(***************************************************************************)
\* rlax.q_learning, rlax.double_q_learning: target_tm1 - q_tm1[a_tm1]
ScalarTdError(target, q_tm1, a_tm1) == target - DiscountUnit * q_tm1[a_tm1]

\* jnp.sqrt of a squared error
Sqrt(x) == CHOOSE s \in 0 .. x : s * s = x

\* jnp.abs
Abs(x) == IF x < 0 THEN -x ELSE x

\* the atoms in the unit of the places of a target
AtomPlace(j) == DiscountUnit * Atoms[j]

\* jnp.clip(z_p, vmin, vmax) in categorical_l2_project
Clip(at) == Max(AtomPlace(1), Min(AtomPlace(Len(Atoms)), at))

RECURSIVE SumOver(_, _)
\* the sum of f over the set S
SumOver(f, S) ==
    IF S = {} THEN 0
    ELSE LET x == CHOOSE x \in S : TRUE IN f[x] + SumOver(f, S \ {x})

\* categorical_l2_project on the two atoms: the mass the target puts at atom
\* j, in proportion to the distance of each place from the other atom
ProjectedMass(target, j) ==
    SumOver([at \in DOMAIN target |->
                target[at] * (IF j = 1 THEN AtomPlace(2) - Clip(at)
                              ELSE Clip(at) - AtomPlace(1))],
            DOMAIN target)

\* -log_softmax at an atom that holds `mass` of the 2 units of a predicted
\* distribution: 0.0 where the softmax saturates at 1.0, finite everywhere
NegLogSoftmax(mass) == IF mass = 2 THEN 0 ELSE IF mass = 1 THEN 1 ELSE 64

\* rlax.categorical_q_learning, rlax.categorical_double_q_learning: the
\* cross-entropy of the prediction for a_tm1 against the projected target
CategoricalTdError(target, q_logits_tm1, a_tm1) ==
    ProjectedMass(target, 1) * NegLogSoftmax(q_logits_tm1[a_tm1][1])
        + ProjectedMass(target, 2) * NegLogSoftmax(q_logits_tm1[a_tm1][2])

\* batch_loss of one transition: the categorical error, or the squared
\* scalar error
BatchLoss(use_distribution, use_double_q, discount, tr, out_tm1, out_t, out_sel) ==
    LET target == TdTarget(use_distribution, use_double_q, discount, tr,
                           out_t, out_sel).target
    IN IF use_distribution
       THEN CategoricalTdError(target, out_tm1, tr.a)
       ELSE ScalarTdError(target, out_tm1, tr.a)
                * ScalarTdError(target, out_tm1, tr.a)

\* new_prios of one transition
NewPrio(use_distribution, batch_loss) ==
    IF use_distribution THEN Abs(batch_loss) ELSE Sqrt(batch_loss)

\* the transitions of a batch, each with what the three network evaluations
\* return on it: outputs whose best action is not the last one
LossRows(use_distribution) ==
    { o \in NetRows(use_distribution) :
        o[NumActions] = IF use_distribution THEN <<1, 1>> ELSE 0 }

LossSamples(use_distribution) ==
    [r : Rewards, term : BOOLEAN, a : Actions,
     out_tm1 : LossRows(use_distribution), out_t : LossRows(use_distribution),
     out_sel : LossRows(use_distribution)]

CallLoss ==
    /\ Fresh
    /\ \E use_distribution \in BOOLEAN, use_double_q \in BOOLEAN,
          discount \in 1 .. DiscountUnit :
        \E batch \in [1 .. TrainBatchSize -> LossSamples(use_distribution)] :
            last_call' = [op |-> "loss", exc |-> "none",
                arg |-> [use_distribution |-> use_distribution,
                         use_double_q |-> use_double_q,
                         discount |-> discount, batch |-> batch],
                ret |-> [j \in 1 .. TrainBatchSize |->
                    NewPrio(use_distribution,
                        BatchLoss(use_distribution, use_double_q, discount,
                                  batch[j], batch[j].out_tm1, batch[j].out_t,
                                  batch[j].out_sel))]]
    /\ UNCHANGED <<config, hyper, disk, online_params, trg_params, opt_state,
                   train_step, rng, intermediate_indices, intermediate_tds,
                   experience, past_obs, past_lms, buffersize>>

NextLoss == CallLoss

SpecLoss == InitPolicy /\ [][NextLoss]_vars

(***************************************************************************)
(* Properties of the new priorities.                                       *)
(***************************************************************************)
\* C15 as stated: every new priority update_q returns for a batch, abs of the
\* error in the distributional variants and square root of the squared error
\* in the scalar variants, is > 0, for a sample whose td-error is exactly
\* zero as well.
C15_NewPrioritiesArePositive ==
    last_call.op = "loss"
        => \A j \in 1 .. TrainBatchSize : last_call.ret[j] > 0

(***************************************************************************)
(* DQNAgent.overwrite_lr.  A learning rate is an integer; lr_factor is a   *)
(* fraction <<numerator, denominator>> whose denominator divides the       *)
(* survivor's rate, so that the float product is exact.                    *)
(***************************************************************************)
LrFactors == {<<1, 2>>, <<1, 4>>}

SurvivorLrs == {4, 8}

\* random.randint(0, 1) * 2 - 1
Signs == {-1, 1}

\* lr_survivor * (1 + sign * lr_factor)
PerturbedLr(lr_survivor, sign, lr_factor) ==
    (lr_survivor * (lr_factor[2] + sign * lr_factor[1])) \div lr_factor[2]

\* optax.adam(learning_rate, eps=3.125e-5): scale_by_adam, then the scaling
\* by -learning_rate
OptaxAdam(rate) == [name |-> "optax.adam", learning_rate |-> rate]

\* self.optimizer.init(self.online_params)
OptInit == 0

OverwriteLr ==
    /\ \E lr_factor \in LrFactors, lr_survivor \in SurvivorLrs, sign \in Signs :
        /\ learning_rate' = PerturbedLr(lr_survivor, sign, lr_factor)
        /\ last_call' = [op |-> "overwrite_lr", exc |-> "none",
                         arg |-> [lr_factor |-> lr_factor,
                                  lr_survivor |-> lr_survivor]]
    /\ optimizer' = OptaxAdam(learning_rate')
    /\ opt_state' = OptInit
    /\ UNCHANGED <<config, disk, lrs, alpha, lr, online_params, trg_params,
                   train_step, rng, intermediate_indices, intermediate_tds,
                   experience, past_obs, past_lms, buffersize>>

NextLr == Update \/ AddExperience \/ OverwriteLr

SpecLr == Init /\ [][NextLr]_vars

(***************************************************************************)
(* Properties of overwrite_lr.                                             *)
(***************************************************************************)
\* C16 as stated: once overwrite_lr(factor, survivor_lr) was called, the
\* learning rate every update() call passes to update_q has the magnitude
\* survivor_lr * (1 + factor) or survivor_lr * (1 - factor) that
\* overwrite_lr computed, for every member; it is not the constructor's.
C16_UpdatePassesOverwrittenLr ==
    [][(/\ last_call'.op = "update"
        /\ ~fixed_weights
        /\ optimizer.name = "optax.adam") =>
            \A i \in Members :
                Abs(last_call'.arg.lr[i]) = optimizer.learning_rate]_vars

(***************************************************************************)
(* Properties of update_prio on short queues and of the write log.         *)
(***************************************************************************)
\* C17 as stated: with prioritized replay, an update_prio() call made with
\* two or fewer pending entries, none included, returns without an error,
\* writes no priority and leaves both queues as they are.
C17_ShortQueueIsNoOp ==
    [][(/\ use_priority
        /\ last_call'.op = "update_prio"
        /\ Len(intermediate_indices) <= 2) =>
            /\ last_call'.exc = "none"
            /\ experience' = experience
            /\ UNCHANGED <<intermediate_indices, intermediate_tds>>]_vars

\* every index, or every td-error, member i's buffer received, in the order
\* of the writes
Written(i, field) ==
    Concat([c \in 1 .. Len(experience[i].calls) |->
                IF field = "indices" THEN experience[i].calls[c].indices
                ELSE experience[i].calls[c].prios])

\* entry a was produced before entry b: by an earlier update(), or by the same
\* update() at an earlier batch position
Before(a, b) == a.step < b.step \/ (a.step = b.step /\ a.pos < b.pos)

\* C18: with prioritized replay, in every state reached by update() and
\* update_prio() calls in any order, the two pending queues have the same
\* length; what member i's buffer has received are member i's indices and
\* td-errors only, the k-th index with the k-th td-error of the same
\* update(), each at most once and the older first.
C18_WritesOncePairedInOrder ==
    use_priority =>
        /\ Len(intermediate_indices) = Len(intermediate_tds)
        /\ \A i \in Members :
            LET idx == Written(i, "indices")
                tds == Written(i, "prios")
            IN /\ Len(idx) = Len(tds)
               /\ \A k \in 1 .. Len(idx) :
                    /\ idx[k].member = i
                    /\ tds[k].member = i
                    /\ tds[k].step = idx[k].step
                    /\ tds[k].pos = idx[k].pos
               /\ \A k \in 1 .. Len(idx) - 1 : Before(idx[k], idx[k + 1])

\* Four update() calls, then one update_prio(): it wrote the entries of the
\* first two update() calls in one write and kept the last two.
C18_Witness ==
    /\ use_priority
    /\ last_call.op = "update_prio"
    /\ last_call.exc = "none"
    /\ Len(intermediate_indices) = 2
    /\ \A i \in Members :
        /\ Len(experience[i].calls) = 1
        /\ Len(experience[i].calls[1].indices) = 2 * TrainBatchSize
        /\ experience[i].calls[1].prios[TrainBatchSize + 1].step = 1

====
